---- MODULE Spec2Model ----
(***************************************************************************)
(* Model of runtime/parachains/src/inclusion_inherent.rs: the inclusion   *)
(* inherent module (storage item Included, hooks on_initialize and        *)
(* on_finalize, the dispatchable inclusion, limit_backed_candidates,      *)
(* should_include_inherent and ProvideInherent::create_inherent).         *)
(*                                                                         *)
(* The inclusion, scheduler and ump modules live in other files of the    *)
(* crate; they are modelled from their interface as the specification     *)
(* describes it (section 6), with the least state that makes their        *)
(* effects observable.                                                     *)
(***************************************************************************)
EXTENDS Integers, Sequences, FiniteSets, TLC

(* ------------------------------ bounds -------------------------------- *)

\* Number of availability cores.
NumCores == 2
\* Longest list of backed candidates offered to inclusion / create_inherent.
MaxCandidates == 2
\* Longest list of signed bitfields offered.
MaxBitfields == 1
\* Most invocations of inclusion (direct or through create_inherent) in a block.
MaxCalls == 2
\* Longest list handed to limit_backed_candidates when it is studied alone.
MaxLimitLen == 5
\* Weight is u64 in the source; its arithmetic is modelled at this many bits.
WeightBits == 16
\* usize on a 32-bit target (the wasm runtime), modelled at this many bits.
\* On a 64-bit target usize is as wide as Weight.
NarrowUsizeBits == 12
\* <T as frame_system::Config>::MaximumBlockWeight::get().
MaximumBlockWeight == 4096

Cores == 0 .. (NumCores - 1)

WeightModulus == 2 ^ WeightBits

(* --------------------------- input universes -------------------------- *)

\* A signed availability bitfield: whether its checks pass, and the cores
\* it reports as available. One failing bitfield stands for all of them, and
\* the passing ones report the cores up to some core.
Bitfield ==
    {[valid |-> FALSE, bits |-> {}]} \cup {[valid |-> TRUE, bits |-> 0 .. c] : c \in Cores}

\* A backed candidate: the core it is backed for and whether its checks pass.
BackedCandidate == [core : Cores, valid : BOOLEAN]

RECURSIVE SeqsUpTo(_, _)
SeqsUpTo(S, n) ==
    IF n = 0 THEN {<<>>}
    ELSE LET shorter == SeqsUpTo(S, n - 1)
         IN  shorter \cup {Append(q, x) : q \in {r \in shorter : Len(r) = n - 1}, x \in S}

DistinctCores(q) == \A i, j \in 1 .. Len(q) : i # j => q[i].core # q[j].core

AscendingCores(q) == \A i, j \in 1 .. Len(q) : i < j => q[i].core < q[j].core

SignedAvailabilityBitfields == SeqsUpTo(Bitfield, MaxBitfields)

\* The lists offered name each core at most once, in core order; a candidate
\* whose checks fail is the last of its list.
BackedCandidates ==
    {q \in SeqsUpTo(BackedCandidate, MaxCandidates) :
        /\ AscendingCores(q)
        /\ \A i \in 1 .. Len(q) : ~q[i].valid => i = Len(q)}

Origins == {"None", "Signed", "Root"}

\* The extrinsics offered: every payload with origin None, and with the other
\* origins the empty payload and the payloads of valid, longest lists.
Extrinsics ==
    {<<o, b, c>> \in Origins \X SignedAvailabilityBitfields \X BackedCandidates :
        \/ o = "None"
        \/ Len(b) = 0 /\ Len(c) = 0
        \/ /\ Len(b) = MaxBitfields /\ \A i \in 1 .. Len(b) : b[i].valid /\ b[i].bits = Cores
           /\ Len(c) = MaxCandidates /\ \A i \in 1 .. Len(c) : c[i].valid}

(* ------------------------------- state -------------------------------- *)

VARIABLES
    Included,              \* storage item Included: TRUE is Some(()), FALSE is None
    PendingAvailability,   \* inclusion module: cores with a candidate pending availability
    AvailabilityCores,     \* scheduler module: the occupied cores
    Scheduled,             \* scheduler module: the value of scheduled(), a sequence of cores
    AvailabilityTimeout,   \* scheduler module: the value of availability_timeout_predicate()
    BlockWeight,           \* frame_system: block_weight().total()
    Effects,               \* per collaborator call, how often it has taken effect in this block
    config,                \* configuration::config().backed_candidate_block_weight
    build,                 \* the build: overflow checks on or off, width of usize
    phase,                 \* "idle", "block" (on_initialize to on_finalize), "rejected" (panicked)
    calls,                 \* invocations of inclusion in this block, and how many returned Ok
    last,                  \* the last operation: its result, its steps and what it handed on
    limited                \* limit_backed_candidates studied alone: its input and its outcome

storage == <<Included, PendingAvailability, AvailabilityCores, Scheduled,
             AvailabilityTimeout, BlockWeight, Effects>>

vars == <<Included, PendingAvailability, AvailabilityCores, Scheduled,
          AvailabilityTimeout, BlockWeight, Effects, config, build, phase, calls, last,
          limited>>

\* The storage as one value, as the operations below read and write it.
State ==
    [Included |-> Included,
     PendingAvailability |-> PendingAvailability,
     AvailabilityCores |-> AvailabilityCores,
     Scheduled |-> Scheduled,
     AvailabilityTimeout |-> AvailabilityTimeout,
     BlockWeight |-> BlockWeight,
     Effects |-> Effects]

EffectNames ==
    {"process_bitfields", "collect_pending", "schedule", "process_candidates",
     "occupied", "process_pending_upward_messages"}

NoEffects == [n \in EffectNames |-> 0]

Noted(s, name) == [s EXCEPT !.Effects[name] = @ + 1]

(* ---------------------- collaborators (interfaces) -------------------- *)

RECURSIVE SortedSeq(_)
SortedSeq(S) ==
    IF S = {} THEN <<>>
    ELSE LET m == CHOOSE x \in S : \A y \in S : x <= y
         IN  <<m>> \o SortedSeq(S \ {m})

Range(q) == {q[i] : i \in 1 .. Len(q)}

\* inclusion::process_bitfields: a validity error leaves the state alone;
\* otherwise the pending cores the bitfields report available conclude, are
\* freed and are returned in core order.
process_bitfields(signed_bitfields, s) ==
    IF \E i \in 1 .. Len(signed_bitfields) : ~signed_bitfields[i].valid
    THEN [err |-> "InvalidBitfieldSignature", value |-> <<>>, st |-> s]
    ELSE LET concluded == {c \in s.PendingAvailability :
                              \E i \in 1 .. Len(signed_bitfields) : c \in signed_bitfields[i].bits}
         IN  [err |-> "Ok",
              value |-> SortedSeq(concluded),
              st |-> Noted([s EXCEPT !.PendingAvailability = @ \ concluded],
                           "process_bitfields")]

\* scheduler::availability_timeout_predicate: None, or a predicate on cores.
availability_timeout_predicate(s) == s.AvailabilityTimeout

\* inclusion::collect_pending(pred): removes and returns the pending cores
\* the predicate holds of.
collect_pending(pred, s) ==
    LET timedout == s.PendingAvailability \cap pred.cores
    IN  [value |-> SortedSeq(timedout),
         st |-> Noted([s EXCEPT !.PendingAvailability = @ \ timedout], "collect_pending")]

\* scheduler::schedule(freed): the freed cores stop being occupied and every
\* core that is not occupied is scheduled.
schedule(freed, s) ==
    LET still == s.AvailabilityCores \ {freed[i][1] : i \in 1 .. Len(freed)}
    IN  Noted([s EXCEPT !.AvailabilityCores = still,
                        !.Scheduled = SortedSeq(Cores \ still)],
              "schedule")

\* scheduler::scheduled()
scheduled(s) == s.Scheduled

\* inclusion::process_candidates: a validity error leaves the state alone;
\* otherwise every candidate becomes pending availability on its core and the
\* cores are returned.
process_candidates(backed_candidates, sched, s) ==
    LET n == Len(backed_candidates)
    IN  IF \E i \in 1 .. n : ~backed_candidates[i].valid
        THEN [err |-> "InvalidBacking", value |-> <<>>, st |-> s]
        ELSE IF \/ \E i \in 1 .. n : backed_candidates[i].core \notin Range(sched)
                \/ ~DistinctCores(backed_candidates)
        THEN [err |-> "UnscheduledCandidate", value |-> <<>>, st |-> s]
        ELSE LET cores == [i \in 1 .. n |-> backed_candidates[i].core]
             IN  [err |-> "Ok",
                  value |-> cores,
                  st |-> Noted([s EXCEPT !.PendingAvailability = @ \cup Range(cores)],
                               "process_candidates")]

\* scheduler::occupied(cores): the cores leave the schedule and are occupied.
occupied(cores, s) ==
    Noted([s EXCEPT !.AvailabilityCores = @ \cup Range(cores),
                    !.Scheduled = SelectSeq(@, LAMBDA c : c \notin Range(cores))],
          "occupied")

\* ump::process_pending_upward_messages
process_pending_upward_messages(s) == Noted(s, "process_pending_upward_messages")

(* ------------------------ limit_backed_candidates --------------------- *)

\* `x as usize`: the low bits of x that fit the target's usize.
AsUsize(x, usize_bits) == x % (2 ^ usize_bits)

\* `a - b` on Weight (u64): with overflow checks the subtraction panics when
\* b > a, without them it wraps.
WeightSub(a, b, overflow_checks) ==
    IF b > a /\ overflow_checks
    THEN [panic |-> TRUE, value |-> 0]
    ELSE [panic |-> FALSE, value |-> (a - b) % WeightModulus]

\* Vec::truncate(n): keeps the first n elements, a no-op when n >= len.
Truncate(q, n) == IF n >= Len(q) THEN q ELSE SubSeq(q, 1, n)

\* limit_backed_candidates: the candidates as the function leaves them, or a
\* panic (overflowing subtraction under overflow checks, division by zero).
limit_backed_candidates(backed_candidates, weight, consumed, bld) ==
    IF weight = 0
    THEN [panic |-> FALSE, candidates |-> backed_candidates]
    ELSE LET block_weight_remaining == WeightSub(MaximumBlockWeight, consumed, bld.overflow_checks)
             divisor == AsUsize(weight, bld.usize_bits)
         IN  IF block_weight_remaining.panic \/ divisor = 0
             THEN [panic |-> TRUE, candidates |-> backed_candidates]
             ELSE LET n_candidates ==
                          AsUsize(block_weight_remaining.value, bld.usize_bits) \div divisor
                  IN  [panic |-> FALSE, candidates |-> Truncate(backed_candidates, n_candidates)]

(* ------------------------------ inclusion ----------------------------- *)

\* The progress of one inclusion call: the storage as written so far, the
\* calls made so far, the errors the collaborators returned, the locals, and
\* the result once the call has returned ("Running" until then; "Panic" when
\* it did not return).
Enter(s, backed_candidates) ==
    [st |-> s, trace |-> <<>>, raised |-> <<>>, result |-> "Running",
     freed_concluded |-> <<>>, freed_timeout |-> <<>>, freed |-> <<>>,
     backed_candidates |-> backed_candidates, scheduled |-> <<>>, occupied |-> <<>>]

Did(ctx, name) == [ctx EXCEPT !.trace = Append(@, name)]

Return(ctx, result) == [ctx EXCEPT !.result = result]

Raised(ctx, err) == [ctx EXCEPT !.raised = Append(@, err)]

\* A statement runs only while the call has not returned.
Running(ctx) == ctx.result = "Running"

\* A statement of inclusion: it leaves ctx as it stands once the call has
\* returned, and otherwise gives next, its effect on ctx.
Then(ctx, next) == IF Running(ctx) THEN next ELSE ctx

\* Mutant of ensure_none: every origin passes.
ensure_none_any(origin, ctx) == ctx

\* ensure_none(origin)?
ensure_none(origin, ctx) ==
    IF origin = "None" THEN ctx ELSE Return(ctx, "BadOrigin")

\* Mutant of IncludedExists: the guard never sees the marker.
IncludedExists_blind(s) == FALSE

\* <Included>::exists()
IncludedExists(s) == s.Included

\* ensure!(!<Included>::exists(), Error::<T>::TooManyInclusionInherents)
ensure_not_included(ctx) ==
    Then(ctx, IF IncludedExists(ctx.st) THEN Return(ctx, "TooManyInclusionInherents") ELSE ctx)

\* Mutant of IsErr: an Err is taken for an Ok and the call goes on.
IsErr_swallowed(r) == FALSE

\* The `?` applied to a collaborator's result: an Err returns from inclusion.
IsErr(r) == r.err # "Ok"

\* let freed_concluded = process_bitfields(signed_bitfields, core_para)?
call_process_bitfields(signed_bitfields, ctx) ==
    Then(ctx, LET r == process_bitfields(signed_bitfields, ctx.st)
                  c == IF r.err = "Ok" THEN Did(ctx, "process_bitfields")
                       ELSE Raised(Did(ctx, "process_bitfields"), r.err)
              IN  IF IsErr(r) THEN Return(c, r.err)
                  ELSE [c EXCEPT !.st = r.st, !.freed_concluded = r.value])

\* Mutant of call_collect_pending: collect_pending is called whether or not
\* the scheduler has a predicate.
call_collect_pending_always(ctx) ==
    Then(ctx, LET r == collect_pending(availability_timeout_predicate(ctx.st), ctx.st)
              IN  [Did(ctx, "collect_pending") EXCEPT
                      !.st = r.st, !.freed_timeout = r.value])

\* let freed_timeout = if let Some(pred) = availability_pred { collect_pending(pred) }
\*                     else { Vec::new() }
call_collect_pending(ctx) ==
    Then(ctx, LET availability_pred == availability_timeout_predicate(ctx.st)
              IN  IF availability_pred.present
                  THEN LET r == collect_pending(availability_pred, ctx.st)
                       IN  [Did(ctx, "collect_pending") EXCEPT
                               !.st = r.st, !.freed_timeout = r.value]
                  ELSE [ctx EXCEPT !.freed_timeout = <<>>])

\* Mutant of FreedChain: the timed-out cores come first.
FreedChain_timeouts_first(freed_concluded, freed_timeout) ==
    [i \in 1 .. Len(freed_timeout) |-> <<freed_timeout[i], "TimedOut">>]
    \o [i \in 1 .. Len(freed_concluded) |-> <<freed_concluded[i], "Concluded">>]

\* freed_concluded tagged Concluded, chained with freed_timeout tagged TimedOut.
FreedChain(freed_concluded, freed_timeout) ==
    [i \in 1 .. Len(freed_concluded) |-> <<freed_concluded[i], "Concluded">>]
    \o [i \in 1 .. Len(freed_timeout) |-> <<freed_timeout[i], "TimedOut">>]

\* scheduler::schedule(freed)
call_schedule(ctx) ==
    Then(ctx, LET freed == FreedChain(ctx.freed_concluded, ctx.freed_timeout)
              IN  [Did(ctx, "schedule") EXCEPT
                      !.st = schedule(freed, ctx.st), !.freed = freed])

\* limit_backed_candidates::<T>(&mut backed_candidates)
call_limit_backed_candidates(weight, bld, ctx) ==
    Then(ctx, LET r == limit_backed_candidates(ctx.backed_candidates, weight,
                                               ctx.st.BlockWeight, bld)
                  c == Did(ctx, "limit_backed_candidates")
              IN  IF r.panic THEN Return(c, "Panic")
                  ELSE [c EXCEPT !.backed_candidates = r.candidates])

\* let occupied = process_candidates(backed_candidates, scheduled(), group_validators)?
call_process_candidates(ctx) ==
    Then(ctx, LET sched == scheduled(ctx.st)
                  r == process_candidates(ctx.backed_candidates, sched, ctx.st)
                  d == [Did(ctx, "process_candidates") EXCEPT !.scheduled = sched]
                  c == IF r.err = "Ok" THEN d ELSE Raised(d, r.err)
              IN  IF IsErr(r) THEN Return(c, r.err)
                  ELSE [c EXCEPT !.st = r.st, !.occupied = r.value])

\* scheduler::occupied(&occupied)
call_occupied(ctx) ==
    Then(ctx, [Did(ctx, "occupied") EXCEPT !.st = occupied(ctx.occupied, ctx.st)])

\* ump::process_pending_upward_messages()
call_process_pending_upward_messages(ctx) ==
    Then(ctx, [Did(ctx, "process_pending_upward_messages") EXCEPT
                  !.st = process_pending_upward_messages(ctx.st)])

\* Included::set(Some(())); Ok(())
set_included(ctx) ==
    Then(ctx, Return([Did(ctx, "Included::set") EXCEPT !.st.Included = TRUE], "Ok"))

\* Mutant of inclusion: Included is set before the upward messages are
\* dispatched.
inclusion_early_set(origin, signed_bitfields, backed_candidates, s, weight, bld) ==
    LET c0 == ensure_none(origin, Enter(s, backed_candidates))
        c1 == ensure_not_included(c0)
        c2 == call_process_bitfields(signed_bitfields, c1)
        c3 == call_collect_pending(c2)
        c4 == call_schedule(c3)
        c5 == call_limit_backed_candidates(weight, bld, c4)
        c6 == call_process_candidates(c5)
        c7 == call_occupied(c6)
        c8 == Then(c7, [Did(c7, "Included::set") EXCEPT !.st.Included = TRUE])
    IN  Then(c8, Return(call_process_pending_upward_messages(c8), "Ok"))

\* Module::inclusion(origin, signed_bitfields, backed_candidates), run on the
\* storage s. Nothing in it or around it restores the storage on an Err.
inclusion(origin, signed_bitfields, backed_candidates, s, weight, bld) ==
    LET c0 == ensure_none(origin, Enter(s, backed_candidates))
        c1 == ensure_not_included(c0)
        c2 == call_process_bitfields(signed_bitfields, c1)
        c3 == call_collect_pending(c2)
        c4 == call_schedule(c3)
        c5 == call_limit_backed_candidates(weight, bld, c4)
        c6 == call_process_candidates(c5)
        c7 == call_occupied(c6)
        c8 == call_process_pending_upward_messages(c7)
    IN  set_included(c8)

(* --------------------------- create_inherent -------------------------- *)

\* Call::inclusion(signed_bitfields, backed_candidates), and no call (None).
CallInclusion(signed_bitfields, backed_candidates) ==
    [present |-> TRUE, signed_bitfields |-> signed_bitfields,
     backed_candidates |-> backed_candidates]

NoCall == [present |-> FALSE, signed_bitfields |-> <<>>, backed_candidates |-> <<>>]

\* What InherentData holds under INCLUSION_INHERENT_IDENTIFIER: nothing, bytes
\* that do not decode, or a pair (signed_bitfields, backed_candidates).
NoData == [kind |-> "absent", signed_bitfields |-> <<>>, backed_candidates |-> <<>>]

BadData == [kind |-> "undecodable", signed_bitfields |-> <<>>, backed_candidates |-> <<>>]

SomeData(signed_bitfields, backed_candidates) ==
    [kind |-> "payload", signed_bitfields |-> signed_bitfields,
     backed_candidates |-> backed_candidates]

\* The call should_include_inherent makes: Module::inclusion with origin None
\* and clones of the proposed payload, on the storage the caller runs on.
DryRun(signed_bitfields, backed_candidates, s, weight, bld) ==
    inclusion("None", signed_bitfields, backed_candidates, s, weight, bld)

\* should_include_inherent: inclusion(...).is_ok()
should_include_inherent(signed_bitfields, backed_candidates, s, weight, bld) ==
    DryRun(signed_bitfields, backed_candidates, s, weight, bld).result = "Ok"

\* Mutant of create_inherent: absent data is taken for the empty payload.
create_inherent_default(data, s, weight, bld) ==
    IF data.kind = "undecodable"
    THEN [result |-> "DecodePanic", call |-> NoCall, st |-> s, run |-> Enter(s, <<>>)]
    ELSE LET run == DryRun(data.signed_bitfields, data.backed_candidates, s, weight, bld)
         IN  IF run.result = "Panic"
             THEN [result |-> "Panic", call |-> NoCall, st |-> run.st, run |-> run]
             ELSE [result |-> IF data.kind = "absent" THEN "NoData" ELSE run.result,
                   call |-> IF run.result = "Ok"
                            THEN CallInclusion(data.signed_bitfields, data.backed_candidates)
                            ELSE CallInclusion(<<>>, <<>>),
                   st |-> run.st,
                   run |-> run]

\* ProvideInherent::create_inherent(data) on the storage s: the Option<Call>
\* returned (or a panic), the dry run it made, and the storage it leaves.
create_inherent(data, s, weight, bld) ==
    IF data.kind = "absent"
    THEN [result |-> "NoData", call |-> NoCall, st |-> s, run |-> Enter(s, <<>>)]
    ELSE IF data.kind = "undecodable"
    THEN [result |-> "DecodePanic", call |-> NoCall, st |-> s, run |-> Enter(s, <<>>)]
    ELSE LET run == DryRun(data.signed_bitfields, data.backed_candidates, s, weight, bld)
         IN  IF run.result = "Panic"
             THEN [result |-> "Panic", call |-> NoCall, st |-> run.st, run |-> run]
             ELSE [result |-> run.result,
                   call |-> IF should_include_inherent(data.signed_bitfields,
                                                       data.backed_candidates, s, weight, bld)
                            THEN CallInclusion(data.signed_bitfields, data.backed_candidates)
                            ELSE CallInclusion(<<>>, <<>>),
                   st |-> run.st,
                   run |-> run]

\* Mutant of on_finalize: the marker is read and left in place.
on_finalize_peek(s) ==
    [panic |-> ~s.Included, st |-> s]

\* Mutant of on_finalize: the marker is taken but its absence is ignored.
on_finalize_lenient(s) ==
    [panic |-> FALSE, st |-> [s EXCEPT !.Included = FALSE]]

\* Module::on_finalize on the storage s: Included::take() and the panic.
on_finalize(s) ==
    [panic |-> ~s.Included, st |-> [s EXCEPT !.Included = FALSE]]

(* ------------------------------ the system ---------------------------- *)

\* The values the environment hands the module. The weight of a candidate
\* with the weight the block has consumed: limiting switched off; and, at one
\* unit a candidate, nothing consumed, one unit left, and the maximum
\* exceeded (Mandatory extrinsics are not held to it).
WeightCases ==
    {<<0, 0>>, <<1, 0>>, <<1, MaximumBlockWeight - 1>>, <<1, MaximumBlockWeight + 1>>}

TimeoutPredicates ==
    {[present |-> FALSE, cores |-> {}], [present |-> TRUE, cores |-> Cores]}

Builds == [overflow_checks : BOOLEAN, usize_bits : {NarrowUsizeBits, WeightBits}]

InherentDatas ==
    {NoData, BadData}
    \cup {SomeData(b, c) : b \in SignedAvailabilityBitfields, c \in BackedCandidates}

\* What is kept of the last operation: the operation, the origin of the
\* inclusion call it made, its result, the calls inclusion made and the
\* errors they returned, what process_bitfields and collect_pending
\* returned, the sequence handed to schedule, the candidates handed on after
\* limiting, the schedule handed to process_candidates, and the call built.
Record(op, origin, result, run, call) ==
    [op |-> op, origin |-> origin, result |-> result,
     trace |-> run.trace, raised |-> run.raised,
     freed_concluded |-> run.freed_concluded, freed_timeout |-> run.freed_timeout,
     freed |-> run.freed, processed |-> run.backed_candidates,
     scheduled |-> run.scheduled, call |-> call]

Panics == {"Panic", "DecodePanic"}

NotLimited == [input |-> <<>>, done |-> FALSE, panic |-> FALSE, output |-> <<>>]

Init ==
    /\ Included = FALSE
    /\ PendingAvailability = {}
    /\ AvailabilityCores = {}
    /\ Scheduled = <<>>
    /\ AvailabilityTimeout = [present |-> FALSE, cores |-> {}]
    /\ BlockWeight = 0
    /\ Effects = NoEffects
    /\ config = 0
    /\ build \in Builds
    /\ phase = "idle"
    /\ calls = [made |-> 0, ok |-> 0]
    /\ last = Record("init", "None", "Ok", Enter(State, <<>>), NoCall)
    /\ limited = NotLimited

Store(s) ==
    /\ Included' = s.Included
    /\ PendingAvailability' = s.PendingAvailability
    /\ AvailabilityCores' = s.AvailabilityCores
    /\ Scheduled' = s.Scheduled
    /\ AvailabilityTimeout' = s.AvailabilityTimeout
    /\ BlockWeight' = s.BlockWeight
    /\ Effects' = s.Effects

\* A block begins on the storage the last finalized block left (a rejected
\* block is discarded with its storage, and nothing is built on it):
\* on_initialize changes no storage of this module; the configuration has its
\* candidate weight, the system its consumed weight and the scheduler its
\* timeout predicate.
OnInitialize ==
    /\ phase = "idle"
    /\ phase' = "block"
    /\ \E wc \in WeightCases : config' = wc[1] /\ BlockWeight' = wc[2]
    /\ AvailabilityTimeout' \in TimeoutPredicates
    /\ Effects' = NoEffects
    /\ calls' = [made |-> 0, ok |-> 0]
    /\ last' = Record("on_initialize", "None", "Ok", Enter(State, <<>>), NoCall)
    /\ UNCHANGED <<Included, PendingAvailability, AvailabilityCores, Scheduled, build, limited>>

Counted(result) ==
    [made |-> calls.made + 1, ok |-> calls.ok + (IF result = "Ok" THEN 1 ELSE 0)]

\* An inclusion extrinsic is dispatched.
Inclusion(origin, signed_bitfields, backed_candidates) ==
    /\ phase = "block"
    /\ calls.made < MaxCalls
    /\ \E run \in {inclusion(origin, signed_bitfields, backed_candidates, State, config, build)} :
           /\ Store(run.st)
           /\ phase' = IF run.result \in Panics THEN "rejected" ELSE "block"
           /\ calls' = Counted(run.result)
           /\ last' = Record("inclusion", origin, run.result, run, NoCall)
    /\ UNCHANGED <<config, build, limited>>

\* The block author asks for the inherent.
CreateInherent(data) ==
    /\ phase = "block"
    /\ calls.made < MaxCalls
    /\ \E r \in {create_inherent(data, State, config, build)} :
           /\ Store(r.st)
           /\ phase' = IF r.result \in Panics THEN "rejected" ELSE "block"
           /\ calls' = IF data.kind = "payload" THEN Counted(r.run.result) ELSE calls
           /\ last' = Record("create_inherent", "None", r.result, r.run, r.call)
    /\ UNCHANGED <<config, build, limited>>

\* The block ends.
OnFinalize ==
    /\ phase = "block"
    /\ \E r \in {on_finalize(State)} :
           /\ Store(r.st)
           /\ phase' = IF r.panic THEN "rejected" ELSE "idle"
           /\ last' = Record("on_finalize", "None", IF r.panic THEN "Panic" ELSE "Ok",
                             Enter(r.st, <<>>), NoCall)
    /\ UNCHANGED <<config, build, calls, limited>>

Next ==
    \/ OnInitialize
    \/ \E x \in Extrinsics : Inclusion(x[1], x[2], x[3])
    \/ \E d \in InherentDatas : CreateInherent(d)
    \/ OnFinalize

Spec == Init /\ [][Next]_vars

(* ---------------- limit_backed_candidates studied alone --------------- *)

\* Candidates stand for themselves here: the function only counts them.
LimitInputs == {[i \in 1 .. n |-> i] : n \in 0 .. MaxLimitLen}

\* backed_candidate_block_weight: none, one unit, 300, and two weights at and
\* past the width of a narrow usize.
LimitWeights == {0, 1, 300, 2 ^ NarrowUsizeBits, 2 ^ NarrowUsizeBits + 300}

\* Consumed block weight: nothing, 1000 and 1 short of the maximum, the
\* maximum, and past it (Mandatory extrinsics are not held to the maximum).
LimitConsumed ==
    {0, MaximumBlockWeight - 1000, MaximumBlockWeight - 1, MaximumBlockWeight,
     MaximumBlockWeight + 1}

InitLimit ==
    /\ Included = FALSE
    /\ PendingAvailability = {}
    /\ AvailabilityCores = {}
    /\ Scheduled = <<>>
    /\ AvailabilityTimeout = [present |-> FALSE, cores |-> {}]
    /\ BlockWeight \in LimitConsumed
    /\ Effects = NoEffects
    /\ config \in LimitWeights
    /\ build \in Builds
    /\ phase = "idle"
    /\ calls = [made |-> 0, ok |-> 0]
    /\ last = Record("init", "None", "Ok", Enter(State, <<>>), NoCall)
    /\ limited \in {[NotLimited EXCEPT !.input = q] : q \in LimitInputs}

\* limit_backed_candidates(&mut backed_candidates) is called.
LimitBackedCandidates ==
    /\ ~limited.done
    /\ \E r \in {limit_backed_candidates(limited.input, config, BlockWeight, build)} :
           limited' = [input |-> limited.input, done |-> TRUE, panic |-> r.panic,
                       output |-> IF r.panic THEN <<>> ELSE r.candidates]
    /\ UNCHANGED <<storage, config, build, phase, calls, last>>

NextLimit == LimitBackedCandidates

SpecLimit == InitLimit /\ [][NextLimit]_vars

(* ------------------------------- claims ------------------------------- *)

\* The last operation called Module::inclusion past its origin check:
\* an inclusion extrinsic with origin None, or create_inherent's dry run.
CalledInclusion(l) ==
    \/ l.op = "inclusion" /\ l.origin = "None"
    \/ l.op = "create_inherent" /\ l.result \notin {"NoData", "DecodePanic"}

\* C1: once Included is present, every further inclusion call with origin
\* None before on_finalize returns TooManyInclusionInherents, calls no
\* collaborator and leaves Included and all collaborator state unchanged.
C1_DuplicateRejected ==
    [][(Included /\ CalledInclusion(last'))
        => /\ last'.result = "TooManyInclusionInherents"
           /\ last'.trace = <<>>
           /\ UNCHANGED storage]_vars

\* A duplicate inclusion extrinsic was rejected after one had succeeded.
C1_Witness ==
    /\ last.op = "inclusion"
    /\ last.result = "TooManyInclusionInherents"
    /\ Included
    /\ calls = [made |-> 2, ok |-> 1]

\* C2: on_finalize rejects the block exactly when Included is absent, which
\* is exactly when no inclusion call returned Ok in the block; a block that
\* finalizes has had exactly one successful inclusion call.
C2_FinalizeRejectsIffAbsent ==
    [][(phase = "block" /\ last'.op = "on_finalize")
        => /\ (last'.result = "Panic") <=> ~Included
           /\ (phase' = "rejected") <=> ~Included
           /\ Included <=> (calls.ok >= 1)
           /\ (last'.result = "Ok") => (calls.ok = 1)]_vars

\* A block finalized after a failing or duplicate call and one successful call.
C2_Witness ==
    /\ last.op = "on_finalize"
    /\ last.result = "Ok"
    /\ phase = "idle"
    /\ calls = [made |-> 2, ok |-> 1]

Last(q) == q[Len(q)]

Before(q, a, b) ==
    \E i, j \in 1 .. Len(q) : i < j /\ q[i] = a /\ q[j] = b

\* C4: when process_bitfields or process_candidates returns an error,
\* inclusion returns that error, makes no call after the failing one and
\* leaves Included absent; a block without a successful inclusion is rejected
\* at on_finalize.
C4_ErrorsAbort ==
    /\ (CalledInclusion(last) /\ last.raised # <<>>)
           => /\ last.raised = <<last.result>>
              /\ Last(last.trace) \in {"process_bitfields", "process_candidates"}
              /\ last.result = "InvalidBitfieldSignature" => last.trace = <<"process_bitfields">>
              /\ last.result \in {"InvalidBacking", "UnscheduledCandidate"}
                     => /\ Last(last.trace) = "process_candidates"
                        /\ \A i \in 1 .. Len(last.trace) :
                               last.trace[i] \notin {"occupied", "process_pending_upward_messages",
                                                     "Included::set"}
              /\ ~Included
    /\ (last.op = "on_finalize" /\ calls.ok = 0) => last.result = "Panic" /\ phase = "rejected"

\* process_candidates failed in an inclusion extrinsic after bitfields were
\* processed and cores rescheduled.
C4_Witness ==
    /\ last.op = "inclusion"
    /\ last.result = "InvalidBacking"
    /\ last.trace = <<"process_bitfields", "collect_pending", "schedule",
                      "limit_backed_candidates", "process_candidates">>
    /\ ~Included

\* The state of the inclusion and scheduler modules.
CollaboratorState == <<PendingAvailability, AvailabilityCores, Scheduled>>

\* C5 (as claimed): a failing inclusion call is atomic; the state after an
\* inclusion call that returned an error equals the state before it.
C5_FailedCallChangesNothing ==
    [][(CalledInclusion(last') /\ last'.result \notin {"Ok", "Panic"})
        => UNCHANGED <<Included, CollaboratorState>>]_vars

\* The calls of a successful inclusion, in order; collect_pending is made
\* when the scheduler has a timeout predicate.
StepsInOrder(with_predicate) ==
    IF with_predicate
    THEN <<"process_bitfields", "collect_pending", "schedule", "limit_backed_candidates",
           "process_candidates", "occupied", "process_pending_upward_messages",
           "Included::set">>
    ELSE <<"process_bitfields", "schedule", "limit_backed_candidates",
           "process_candidates", "occupied", "process_pending_upward_messages",
           "Included::set">>

\* C6: a successful inclusion call makes its collaborator calls once each in
\* the order process_bitfields, collect_pending, schedule,
\* limit_backed_candidates, process_candidates, occupied,
\* process_pending_upward_messages, and sets Included last; Included is never
\* set before process_pending_upward_messages has run.
C6_StepsInOrder ==
    /\ (CalledInclusion(last) /\ last.result = "Ok")
           => /\ last.trace = StepsInOrder(AvailabilityTimeout.present)
              /\ Included
    /\ \A i \in 1 .. Len(last.trace) :
           last.trace[i] = "Included::set"
               => /\ i = Len(last.trace)
                  /\ Before(last.trace, "process_pending_upward_messages", "Included::set")

\* A successful inclusion extrinsic, with a timeout predicate, that freed a
\* core and processed a candidate.
C6_Witness ==
    /\ last.op = "inclusion"
    /\ last.result = "Ok"
    /\ AvailabilityTimeout.present
    /\ last.freed # <<>>
    /\ last.processed # <<>>
    /\ Effects = [n \in EffectNames |-> 1]

\* C7 (as claimed): given inherent data, create_inherent dry-runs
\* inclusion(None, bitfields, candidates) and always builds a call: the
\* proposed payload when the dry run returned Ok, the empty payload when it
\* returned an error.
C7_CallFollowsDryRun ==
    [][\A d \in InherentDatas :
           (d.kind = "payload" /\ CreateInherent(d))
               => /\ last'.call.present
                  /\ last'.trace # <<>> \/ last'.result = "TooManyInclusionInherents"
                  /\ last'.result = "Ok"
                         => last'.call = CallInclusion(d.signed_bitfields, d.backed_candidates)
                  /\ last'.result # "Ok" => last'.call = CallInclusion(<<>>, <<>>)]_vars

\* C8 (as claimed): the dry run of create_inherent is discarded; the state
\* after create_inherent equals the state before it.
C8_DryRunLeavesNoTrace ==
    [][(last'.op = "create_inherent") => UNCHANGED <<Included, CollaboratorState>>]_vars

\* C9 (as claimed): in a block where no inclusion had succeeded before
\* create_inherent (at most its own dry run returned Ok), the call
\* create_inherent built returns Ok and sets Included when it is executed
\* next.
C9_BuiltCallSucceeds ==
    [][(/\ last.op = "create_inherent"
        /\ last.call.present
        /\ calls.ok = (IF last.result = "Ok" THEN 1 ELSE 0)
        /\ Inclusion("None", last.call.signed_bitfields, last.call.backed_candidates))
        => (last'.result = "Ok" /\ Included')]_vars

\* C10: without inherent data create_inherent returns None, makes no dry run
\* and changes no state; a block in which no inclusion call is made is
\* rejected at on_finalize.
C10_NoDataNoCall ==
    [][/\ CreateInherent(NoData)
           => /\ ~last'.call.present
              /\ last'.trace = <<>>
              /\ calls' = calls
              /\ UNCHANGED storage
       /\ (phase = "block" /\ last'.op = "on_finalize" /\ calls.made = 0)
              => (last'.result = "Panic" /\ phase' = "rejected")]_vars

\* create_inherent returned None in a block that has seen no inclusion call.
C10_Witness ==
    /\ last.op = "create_inherent"
    /\ last.result = "NoData"
    /\ ~last.call.present
    /\ calls.made = 0
    /\ ~Included
    /\ phase = "block"

Min(a, b) == IF a <= b THEN a ELSE b

IsPrefix(p, q) == Len(p) <= Len(q) /\ \A i \in 1 .. Len(p) : p[i] = q[i]

\* C3 (as claimed): with w = backed_candidate_block_weight and
\* B = MaximumBlockWeight - consumed, limit_backed_candidates returns the list
\* unchanged when w = 0, and when w > 0 the prefix of the input of length
\* min(len(input), floor(B / w)).
C3_LimitIsPrefixOfBudget ==
    limited.done
    => IF config = 0
       THEN ~limited.panic /\ limited.output = limited.input
       ELSE /\ ~limited.panic
            /\ IsPrefix(limited.output, limited.input)
            /\ Len(limited.output)
                   = Min(Len(limited.input), (MaximumBlockWeight - BlockWeight) \div config)

\* C11: an inclusion call whose origin is not None (signed or root) returns
\* BadOrigin at the origin check, before the guard and before any
\* collaborator call; Included and all collaborator state are unchanged,
\* whether or not Included was present.
C11_BadOriginRejected ==
    [][(last'.op = "inclusion" /\ last'.origin # "None")
        => /\ last'.result = "BadOrigin"
           /\ last'.trace = <<>>
           /\ last'.raised = <<>>
           /\ Included' = Included
           /\ UNCHANGED storage]_vars

\* A root-origin inclusion extrinsic was refused in a block where Included
\* was already present.
C11_Witness ==
    /\ last.op = "inclusion"
    /\ last.origin = "Root"
    /\ last.result = "BadOrigin"
    /\ Included
    /\ calls = [made |-> 2, ok |-> 1]

\* The operation called inclusion, and the call got as far as name.
Called(l, name) == CalledInclusion(l) /\ \E i \in 1 .. Len(l.trace) : l.trace[i] = name

\* C12: the sequence handed to schedule is every core process_bitfields
\* returned, in the returned order, each tagged Concluded, followed by every
\* core collect_pending returned, in the returned order, each tagged TimedOut;
\* no core is dropped, duplicated, reordered or re-tagged.
C12_FreedIsConcludedThenTimedOut ==
    Called(last, "schedule")
    => /\ Len(last.freed) = Len(last.freed_concluded) + Len(last.freed_timeout)
       /\ \A i \in 1 .. Len(last.freed_concluded) :
              last.freed[i] = <<last.freed_concluded[i], "Concluded">>
       /\ \A j \in 1 .. Len(last.freed_timeout) :
              last.freed[Len(last.freed_concluded) + j] = <<last.freed_timeout[j], "TimedOut">>

\* An inclusion extrinsic freed one core as concluded and another as timed
\* out.
C12_Witness ==
    /\ last.op = "inclusion"
    /\ last.result = "Ok"
    /\ last.freed_concluded # <<>>
    /\ last.freed_timeout # <<>>
    /\ Len(last.freed) = 2

\* C13: the guard is reset by being consumed at block end: after an
\* on_finalize that does not reject the block Included is absent,
\* on_initialize does not change Included, so Included is absent at the start
\* of every block and the first inclusion call of a block is never rejected
\* with TooManyInclusionInherents.
C13_GuardResetAtBlockEnd ==
    [][/\ (last'.op = "on_finalize" /\ last'.result = "Ok") => ~Included'
       /\ (last'.op = "on_initialize") => (Included' = Included /\ ~Included')
       /\ (phase = "block" /\ calls.made = 0 /\ CalledInclusion(last'))
              => last'.result # "TooManyInclusionInherents"]_vars

\* The first inclusion extrinsic of a block succeeded and freed a core that a
\* candidate admitted in an earlier block had occupied.
C13_Witness ==
    /\ last.op = "inclusion"
    /\ last.result = "Ok"
    /\ calls = [made |-> 1, ok |-> 1]
    /\ last.freed # <<>>
    /\ Included

\* How often the call named name was made.
Times(trace, name) == Cardinality({i \in 1 .. Len(trace) : trace[i] = name})

\* C14: when the scheduler's availability_timeout_predicate is absent,
\* inclusion does not call collect_pending, the timed-out set is empty and
\* schedule is still called, with exactly the concluded cores tagged
\* Concluded; when the predicate is present collect_pending is called exactly
\* once, with that predicate.
C14_TimeoutsOnlyWithPredicate ==
    Called(last, "schedule")
    => /\ Times(last.trace, "schedule") = 1
       /\ IF AvailabilityTimeout.present
          THEN /\ Times(last.trace, "collect_pending") = 1
               /\ Before(last.trace, "collect_pending", "schedule")
               /\ \A i \in 1 .. Len(last.freed_timeout) :
                      last.freed_timeout[i] \in AvailabilityTimeout.cores
          ELSE /\ Times(last.trace, "collect_pending") = 0
               /\ last.freed_timeout = <<>>
               /\ last.freed = [i \in 1 .. Len(last.freed_concluded) |->
                                    <<last.freed_concluded[i], "Concluded">>]

\* An inclusion extrinsic in a block without a timeout predicate handed a
\* concluded core to schedule.
C14_Witness ==
    /\ last.op = "inclusion"
    /\ last.result = "Ok"
    /\ ~AvailabilityTimeout.present
    /\ last.freed_concluded # <<>>
    /\ Times(last.trace, "schedule") = 1

\* The budget B the weight limit is about: what is left of
\* MaximumBlockWeight once the weight consumed in the block is taken off,
\* nothing when the block has consumed that much or more.
RemainingBudget == IF BlockWeight >= MaximumBlockWeight THEN 0
                   ELSE MaximumBlockWeight - BlockWeight

\* C15 (as claimed): the list handed to process_candidates is the output of
\* limit_backed_candidates on the call's candidates: a prefix of them, and
\* when w > 0 of at most floor(B / w) candidates, so that the candidates
\* processed times w never exceed the remaining budget B; and
\* process_candidates is given scheduled() as it stands after schedule(freed)
\* of the same call.
C15_ProcessedWithinBudget ==
    [][(last'.op = "inclusion" /\ Called(last', "process_candidates"))
        => /\ Before(last'.trace, "schedule", "limit_backed_candidates")
           /\ Before(last'.trace, "limit_backed_candidates", "process_candidates")
           /\ \A x \in Extrinsics :
                  Inclusion(x[1], x[2], x[3]) => IsPrefix(last'.processed, x[3])
           /\ config > 0 => Len(last'.processed) * config <= RemainingBudget
           /\ last'.scheduled = schedule(last'.freed, State).Scheduled]_vars

\* C17 (as claimed): in limit_backed_candidates with w > 0 the remaining
\* budget never underflows: when the weight consumed is MaximumBlockWeight or
\* more the limiter returns and retains no candidate; with w = 0 the block
\* weight is not consulted and the list is left as it is. (Stated for the
\* weights w that fit the usize of every target.)
C17_NoUnderflow ==
    limited.done
    => /\ (config > 0 /\ config < 2 ^ NarrowUsizeBits /\ BlockWeight >= MaximumBlockWeight)
              => (~limited.panic /\ limited.output = <<>>)
       /\ config = 0 => (~limited.panic /\ limited.output = limited.input)

\* The collaborator calls every successful inclusion makes.
AdmissionEffects ==
    {"process_bitfields", "schedule", "process_candidates", "occupied",
     "process_pending_upward_messages"}

\* C16 (as claimed): in every state within a block, Included is present only
\* if process_bitfields, schedule, process_candidates, occupied and
\* process_pending_upward_messages have each taken effect exactly once since
\* the previous on_finalize; Included is set only by an inclusion call that
\* returns Ok, and changes from absent to present at most once per block.
C16_IncludedMeansOneAdmission ==
    [][/\ (phase' = "block" /\ Included') => \A n \in AdmissionEffects : Effects'[n] = 1
       /\ (~Included /\ Included')
              => /\ CalledInclusion(last')
                 /\ last'.result = "Ok"
                 /\ calls.ok = 0]_vars

\* The errors the collaborators return.
CollaboratorErrors == {"InvalidBitfieldSignature", "InvalidBacking", "UnscheduledCandidate"}

\* C18 (as claimed): an inclusion call with empty bitfields and empty
\* candidates runs the whole pipeline (process_bitfields with the empty set,
\* collect_pending when a timeout predicate is present, schedule,
\* process_candidates with the empty list, occupied, the upward messages) and
\* sets Included; its only possible failures are the origin check, the
\* duplicate guard and an error returned by a collaborator.
C18_EmptyCallRunsPipeline ==
    [][\A o \in Origins :
           Inclusion(o, <<>>, <<>>)
               => /\ last'.result \in {"Ok", "BadOrigin", "TooManyInclusionInherents"}
                                           \cup CollaboratorErrors
                  /\ last'.result = "BadOrigin" <=> o # "None"
                  /\ last'.result = "TooManyInclusionInherents" <=> (o = "None" /\ Included)
                  /\ last'.result \in CollaboratorErrors => last'.raised = <<last'.result>>
                  /\ last'.result = "Ok"
                         => /\ last'.trace = StepsInOrder(AvailabilityTimeout.present)
                            /\ last'.processed = <<>>
                            /\ Included']_vars

====
